---- MODULE Spec2Model ----
(***************************************************************************)
(* Model of app/application.py: the result combiner, the collectors, the   *)
(* validators, the JSON-backed Log and the process_results orchestration.  *)
(*                                                                         *)
(* Python values are tagged records [k, n, s]: k is the Python type, n the *)
(* numeric part (a float is held in tenths, so 23.8 is 238), s the text as *)
(* a sequence of one-character strings.                                    *)
(***************************************************************************)
EXTENDS Integers, Sequences, FiniteSets, TLC

VARIABLES
    call,     \* the direct call being made to a function of the module
    ret,      \* outcome of the last call: pending, returned or raised
    stdout,   \* messages printed so far
    doc,      \* the backing document data/log.json
    inst,     \* the Log instances: their position and in-memory mapping
    pc,       \* position of the running process_results call
    frame,    \* arguments and locals of the running process_results call
    trace,    \* the calls made so far, in order, each with its arguments
    origin,   \* for each key of the document, the call that inserted it
    ncalls    \* number of process_results calls started

vars == <<call, ret, stdout, doc, inst, pc, frame, trace, origin, ncalls>>

(***************************************************************************)
(* Bounds                                                                  *)
(***************************************************************************)
MaxLen == 4        \* longest result_3 string drawn as an input
MaxWrites == 3     \* write_log calls on one Log instance
MaxCalls == 4      \* process_results calls in one behaviour

(***************************************************************************)
(* Python values                                                           *)
(***************************************************************************)
NoText == << >>
IntV(i) == [k |-> "int", n |-> i, s |-> NoText]
FloatV(t) == [k |-> "float", n |-> t, s |-> NoText]
BoolV(b) == [k |-> "bool", n |-> IF b THEN 1 ELSE 0, s |-> NoText]
StrV(t) == [k |-> "str", n |-> 0, s |-> t]
NoneV == [k |-> "None", n |-> 0, s |-> NoText]

\* isinstance(val, int): bool is a subclass of int
IsInstanceInt(v) == v.k \in {"int", "bool"}

\* the value of a number in tenths, as the comparison and the sum see it
Tenths(v) == IF v.k = "float" THEN v.n ELSE v.n * 10

\* math.floor and math.ceil of a number, as integers
Floor(v) == IF v.k = "float" THEN v.n \div 10 ELSE v.n
Ceil(v) == IF v.k = "float" THEN -((-v.n) \div 10) ELSE v.n

Digits == <<"0", "1", "2", "3", "4", "5", "6", "7", "8", "9">>
DigitSet == {Digits[i] : i \in 1..10}
DigitVal(c) == (CHOOSE i \in 1..10 : Digits[i] = c) - 1

\* str(i) of an int
RECURSIVE NatStr(_)
NatStr(i) == IF i < 10 THEN <<Digits[i + 1]>>
             ELSE NatStr(i \div 10) \o <<Digits[(i % 10) + 1]>>
Str(i) == IF i < 0 THEN <<"-">> \o NatStr(-i) ELSE NatStr(i)

\* str.split("_"): the pieces between the delimiters, empty pieces kept
RECURSIVE SplitFrom(_, _, _)
SplitFrom(t, i, cur) ==
    IF i > Len(t) THEN <<cur>>
    ELSE IF t[i] = "_" THEN <<cur>> \o SplitFrom(t, i + 1, NoText)
    ELSE SplitFrom(t, i + 1, Append(cur, t[i]))
Split(t) == SplitFrom(t, 1, NoText)

\* str.strip() of the whitespace int() ignores
RECURSIVE LStrip(_)
LStrip(t) == IF t # NoText /\ Head(t) = " " THEN LStrip(Tail(t)) ELSE t
RECURSIVE RStrip(_)
RStrip(t) == IF t # NoText /\ t[Len(t)] = " "
             THEN RStrip(SubSeq(t, 1, Len(t) - 1)) ELSE t
Strip(t) == RStrip(LStrip(t))

\* int(text): optional surrounding blanks, optional sign, decimal digits
Unsigned(t) == IF t # NoText /\ Head(t) \in {"-", "+"} THEN Tail(t) ELSE t
IntOk(t) ==
    LET u == Unsigned(Strip(t))
    IN  u # NoText /\ \A i \in 1..Len(u) : u[i] \in DigitSet
RECURSIVE DigitsVal(_)
DigitsVal(u) == IF u = NoText THEN 0
                ELSE DigitsVal(SubSeq(u, 1, Len(u) - 1)) * 10 + DigitVal(u[Len(u)])
IntOf(t) ==
    LET b == Strip(t)
        m == DigitsVal(Unsigned(b))
    IN  IF Head(b) = "-" THEN -m ELSE m

(***************************************************************************)
(* Outcomes of a call                                                      *)
(***************************************************************************)
Pending == [status |-> "pending", val |-> NoneV, exc |-> "", args |-> << >>]
Returned(v) == [status |-> "returned", val |-> v, exc |-> "", args |-> << >>]
\* an exception of type e whose message holds the values a
Raised(e, a) == [status |-> "raised", val |-> NoneV, exc |-> e, args |-> a]

(***************************************************************************)
(* combine_results                                                         *)
(***************************************************************************)
Threshold == 51

\* Normalise with the floor taken on both sides of the threshold
NormaliseFloorOnly(r2) == Floor(r2)

\* floor(result_2) if result_2 < 51 else ceil(result_2)
Normalise(r2) == IF Tenths(r2) < Threshold * 10 THEN Floor(r2) ELSE Ceil(r2)

\* the body of the try block: the value returned or the exception raised
CombineTry(r1, r2, r3) ==
    IF r2.k \notin {"int", "float", "bool"}
    THEN Raised("TypeError", << >>)
    ELSE IF r3.k # "str"
    THEN Raised("AttributeError", << >>)
    ELSE LET tokens == Split(r3.s) IN
         IF Len(tokens) < 2
         THEN Raised("IndexError", << >>)
         ELSE IF ~IntOk(tokens[2])
         THEN Raised("ValueError", <<StrV(tokens[2])>>)
         ELSE LET new2 == Normalise(r2)
                  new3 == IntOf(tokens[2])
              IN  IF r1.k \in {"int", "bool"}
                  THEN Returned(IntV(r1.n + new2 + new3))
                  ELSE IF r1.k = "float"
                  THEN Returned(FloatV(r1.n + (new2 + new3) * 10))
                  ELSE Raised("TypeError", << >>)

\* the except clause re-raises the exception it caught
combine_results(r1, r2, r3) == CombineTry(r1, r2, r3)

\* what the except clause prints before re-raising
Diagnostic(r1, r2, r3) ==
    [text |-> "Unable to process the values", vals |-> <<r1, r2, r3>>]
\* CombinePrints with result_3 left out of the message
CombinePrintsTwo(r1, r2, r3) ==
    IF CombineTry(r1, r2, r3).status = "raised"
    THEN <<[text |-> "Unable to process the values", vals |-> <<r1, r2>>]>>
    ELSE << >>
CombinePrints(r1, r2, r3) ==
    IF CombineTry(r1, r2, r3).status = "raised"
    THEN <<Diagnostic(r1, r2, r3)>> ELSE << >>

(***************************************************************************)
(* Collectors and validators                                               *)
(***************************************************************************)
Easy == <<"e", "a", "s", "y">>
Medium == <<"m", "e", "d", "i", "u", "m">>
Hard == <<"h", "a", "r", "d">>
TEST_RESULTS == (Easy :> FloatV(238)) @@ (Medium :> FloatV(499)) @@ (Hard :> FloatV(1051))

\* collect_result_2 with the lookup guarded as validate_test_type guards it
collect_result_2_guarded(test_type) ==
    IF test_type \in DOMAIN TEST_RESULTS
    THEN Returned(TEST_RESULTS[test_type])
    ELSE Raised("ValueError", <<StrV(test_type)>>)

\* TEST_RESULTS[test_type]: a missing key raises KeyError(test_type)
collect_result_2(test_type) ==
    IF test_type \in DOMAIN TEST_RESULTS
    THEN Returned(TEST_RESULTS[test_type])
    ELSE Raised("KeyError", <<StrV(test_type)>>)

\* random.choice(result_range): the outcomes for each index it may draw
collect_result_1(result_range) ==
    IF result_range = << >>
    THEN {Raised("IndexError", << >>)}
    ELSE {Returned(result_range[i]) : i \in 1..Len(result_range)}

\* validate_result_range accepting every element
validate_result_range_lenient(result_range) == Returned(NoneV)

validate_result_range(result_range) ==
    IF \A i \in 1..Len(result_range) : IsInstanceInt(result_range[i])
    THEN Returned(NoneV)
    ELSE Raised("ValueError", result_range)

validate_test_type(test_type) ==
    IF test_type \in DOMAIN TEST_RESULTS
    THEN Returned(NoneV)
    ELSE Raised("ValueError", <<StrV(test_type)>>)

(***************************************************************************)
(* JSON: what json.dump writes for a value and what json.load reads back.  *)
(* A number is its mantissa m and decimal exponent e (23.8 is 238e-1, 3 is *)
(* 3e0), so an int and a float stay apart as they do in the text.          *)
(***************************************************************************)
ToJson(v) ==
    CASE v.k = "int" -> [j |-> "number", m |-> v.n, e |-> 0, s |-> NoText]
      [] v.k = "float" -> [j |-> "number", m |-> v.n, e |-> -1, s |-> NoText]
      [] v.k = "bool" -> [j |-> IF v.n = 1 THEN "true" ELSE "false",
                          m |-> 0, e |-> 0, s |-> NoText]
      [] v.k = "str" -> [j |-> "string", m |-> 0, e |-> 0, s |-> v.s]
      [] OTHER -> [j |-> "null", m |-> 0, e |-> 0, s |-> NoText]

FromJson(x) ==
    CASE x.j = "number" -> IF x.e = 0 THEN IntV(x.m) ELSE FloatV(x.m)
      [] x.j = "true" -> BoolV(TRUE)
      [] x.j = "false" -> BoolV(FALSE)
      [] x.j = "string" -> StrV(x.s)
      [] OTHER -> NoneV

JsonDump(log) == [key \in DOMAIN log |-> [i \in DOMAIN log[key] |-> ToJson(log[key][i])]]
JsonLoad(obj) == [key \in DOMAIN obj |-> [i \in DOMAIN obj[key] |-> FromJson(obj[key][i])]]

(***************************************************************************)
(* The document and the Log class                                          *)
(***************************************************************************)
NoLog == [key \in {} |-> << >>]     \* the empty mapping {}
Absent == [state |-> "absent", content |-> NoLog]
\* open(log_path, "w") leaves an empty file until json.dump has written
Truncated == [state |-> "empty", content |-> NoLog]
\* a file whose text is no JSON document
Garbage == [state |-> "garbage", content |-> NoLog]
\* the document after json.dump(self.log, f, indent=4)
Dumped(log) == [state |-> "json", content |-> JsonDump(log)]

\* Log.__init__: the mapping loaded, or the error json.load raises
LogInit(d) ==
    IF d.state = "absent" THEN Returned(NoneV)
    ELSE IF d.state = "json" THEN Returned(NoneV)
    ELSE Raised("JSONDecodeError", << >>)
Loaded(d) == IF d.state = "json" THEN JsonLoad(d.content) ELSE NoLog

\* str(output)
Key(output) == Str(output.n)

\* Insert forgetting the entries the mapping had
InsertAlone(log, output, results) ==
    [key \in {Key(output)} |-> results]

\* self.log[str(output)] = results
Insert(log, output, results) ==
    [key \in DOMAIN log \cup {Key(output)} |->
        IF key = Key(output) THEN results ELSE log[key]]

\* write_log without the test for a key already present
write_log_overwriting(log, d, output, results) ==
    [log |-> Insert(log, output, results),
     doc |-> Dumped(Insert(log, output, results))]

\* write_log dumping the mapping as it was before the insertion
write_log_stale(log, d, output, results) ==
    IF Key(output) \notin DOMAIN log
    THEN [log |-> Insert(log, output, results), doc |-> Dumped(log)]
    ELSE [log |-> log, doc |-> d]

\* Log.write_log: the mapping and the document it leaves
write_log(log, d, output, results) ==
    IF Key(output) \notin DOMAIN log
    THEN [log |-> Insert(log, output, results),
          doc |-> Dumped(Insert(log, output, results))]
    ELSE [log |-> log, doc |-> d]

\* with open(self.log_path, "w") as f: the file on entering the block
open_w(d) == Truncated
\* json.dump(self.log, f) and the close of f: the text is written from
\* the start of the file, so a file that another writer filled since this
\* one opened it keeps that writer's tail when this text is the shorter
json_dump(log, f) ==
    IF f.state = "empty" THEN {Dumped(log)} ELSE {Dumped(log), Garbage}

\* an entry of trace: the function called and its arguments, a list argument
\* being given by its elements
Called(fn, args) == [fn |-> fn, args |-> args]

NoFrame == [result_range |-> << >>, test_type |-> NoText, result_1 |-> NoneV,
            result_2 |-> NoneV, result_3 |-> NoneV, output |-> NoneV,
            entry_doc |-> Absent]
NoCall == [fn |-> "none", r1 |-> NoneV, r2 |-> NoneV, r3 |-> NoneV,
           test_type |-> NoText, result_range |-> << >>]

(***************************************************************************)
(* Direct calls of the pure functions: the inputs are drawn by the initial *)
(* state, the action applies the function called.                          *)
(***************************************************************************)
Alphabet == {"n", "_", "1", "0", "-", " "}
Texts == UNION {[1..l -> Alphabet] : l \in 0..MaxLen}
Number_3 == <<"N", "u", "m", "b", "e", "r", "_", "3">>
Number_123 == <<"N", "u", "m", "b", "e", "r", "_", "1", "2", "3">>
Number_xxx == <<"N", "u", "m", "b", "e", "r", "_", "x", "x", "x">>

Result1Inputs == {IntV(3), IntV(34), IntV(-7), BoolV(TRUE), FloatV(25), StrV(<<"3">>)}
Result2Inputs == {FloatV(46), FloatV(242), FloatV(509), FloatV(510), FloatV(511),
                  FloatV(-15), IntV(50), IntV(51), StrV(<<"2", "4", ".", "2">>)}
Result3Inputs == {StrV(t) : t \in Texts \cup {Number_3, Number_123, Number_xxx}}
                    \cup {IntV(3)}
LabelInputs == {Easy, Medium, Hard, <<"E", "A", "S", "Y">>, <<"J", "u", "n", "k">>,
                <<"m", "d", "i", "u", "m">>, NoText}
ElementInputs == {IntV(1), IntV(27), BoolV(TRUE), FloatV(12), StrV(<<"s", "t", "r">>)}
RangeInputs == UNION {[1..l -> ElementInputs] : l \in 0..2}

CombineCall(r1, r2, r3) == [NoCall EXCEPT !.fn = "combine_results",
                                          !.r1 = r1, !.r2 = r2, !.r3 = r3]
LabelCall(fn, t) == [NoCall EXCEPT !.fn = fn, !.test_type = t]
RangeCall(fn, r) == [NoCall EXCEPT !.fn = fn, !.result_range = r]

FuncInit ==
    /\ call \in {CombineCall(r1, r2, r3) :
                    r1 \in Result1Inputs, r2 \in Result2Inputs, r3 \in Result3Inputs}
          \cup {LabelCall(fn, t) : fn \in {"collect_result_2", "validate_test_type"},
                                   t \in LabelInputs}
          \cup {RangeCall(fn, r) : fn \in {"collect_result_1", "validate_result_range"},
                                   r \in RangeInputs}
    /\ ret = Pending
    /\ stdout = << >>
    /\ doc = Absent
    /\ inst = << >>
    /\ pc = "idle"
    /\ frame = NoFrame
    /\ trace = << >>
    /\ origin = << >>
    /\ ncalls = 0

CallCombine ==
    /\ call.fn = "combine_results" /\ ret = Pending
    /\ ret' = combine_results(call.r1, call.r2, call.r3)
    /\ stdout' = stdout \o CombinePrints(call.r1, call.r2, call.r3)
    /\ UNCHANGED <<call, doc, inst, pc, frame, trace, origin, ncalls>>

CallCollect1 ==
    /\ call.fn = "collect_result_1" /\ ret = Pending
    /\ ret' \in collect_result_1(call.result_range)
    /\ UNCHANGED <<call, stdout, doc, inst, pc, frame, trace, origin, ncalls>>

CallCollect2 ==
    /\ call.fn = "collect_result_2" /\ ret = Pending
    /\ ret' = collect_result_2(call.test_type)
    /\ UNCHANGED <<call, stdout, doc, inst, pc, frame, trace, origin, ncalls>>

CallValidateRange ==
    /\ call.fn = "validate_result_range" /\ ret = Pending
    /\ ret' = validate_result_range(call.result_range)
    /\ UNCHANGED <<call, stdout, doc, inst, pc, frame, trace, origin, ncalls>>

CallValidateType ==
    /\ call.fn = "validate_test_type" /\ ret = Pending
    /\ ret' = validate_test_type(call.test_type)
    /\ UNCHANGED <<call, stdout, doc, inst, pc, frame, trace, origin, ncalls>>

FuncNext ==
    \/ CallCombine
    \/ CallCollect1
    \/ CallCollect2
    \/ CallValidateRange
    \/ CallValidateType

FuncSpec == FuncInit /\ [][FuncNext]_vars

(***************************************************************************)
(* Properties of the pure functions, checked under FuncSpec                *)
(***************************************************************************)
\* the integers whose decimal digits are all 0 or 1, of at most d digits
RECURSIVE Plain01(_)
Plain01(d) == IF d = 0 THEN {0}
              ELSE {10 * m + b : m \in Plain01(d - 1), b \in {0, 1}}
SuffixInputs == Plain01(MaxLen) \cup {-m : m \in Plain01(MaxLen)} \cup {3, 123}

\* t is <prefix>_<n>: the text after the first "_", up to the next "_" or
\* the end, is the decimal form of n
HasForm(t, n) ==
    \E i \in 1..Len(t) :
        /\ t[i] = "_"
        /\ \A j \in 1..(i - 1) : t[j] # "_"
        /\ LET rest == SubSeq(t, i + 1, Len(t))
           IN  \E l \in 1..Len(rest) :
                  /\ SubSeq(rest, 1, l) = Str(n)
                  /\ l = Len(rest) \/ rest[l + 1] = "_"

\* the floor of t tenths when below 51, the ceiling otherwise, by its bounds
RoundAt51(t) ==
    CHOOSE z \in -10..120 :
        IF t < 510 THEN z * 10 <= t /\ t < (z + 1) * 10
        ELSE (z - 1) * 10 < t /\ t <= z * 10

\* C1: for an integer result_1, a real result_2 and a result_3 of the form
\* <prefix>_<n>, combine_results returns result_1 + (floor(result_2) if
\* result_2 < 51 else ceil(result_2)) + n.
C1_CombineSum ==
    (/\ call.fn = "combine_results" /\ ret # Pending
     /\ call.r1.k = "int" /\ call.r2.k = "float" /\ call.r3.k = "str")
    => \A n \in SuffixInputs :
          HasForm(call.r3.s, n)
          => ret = Returned(IntV(call.r1.n + RoundAt51(call.r2.n) + n))

\* a call with result_2 above the threshold has returned: 34 + 52 + 123
C1_Witness ==
    /\ call = CombineCall(IntV(34), FloatV(511), StrV(Number_123))
    /\ ret = Returned(IntV(209))

\* the three inputs of a combine_results call are all among the values vs
CarriesInputs(vs) ==
    \A v \in {call.r1, call.r2, call.r3} : \E i \in 1..Len(vs) : vs[i] = v

KnownLabels == {Easy, Medium, Hard}

\* C8 as stated: collect_result_2 returns 23.8, 49.9 and 105.1 for "easy",
\* "medium" and "hard", and for any other label fails with the kind of
\* error validate_test_type raises for it.
C8_SameErrorKind ==
    (call.fn = "collect_result_2" /\ ret # Pending)
    => /\ call.test_type = Easy => ret = Returned(FloatV(238))
       /\ call.test_type = Medium => ret = Returned(FloatV(499))
       /\ call.test_type = Hard => ret = Returned(FloatV(1051))
       /\ call.test_type \notin KnownLabels =>
            /\ ret.status = "raised"
            /\ ret.exc = validate_test_type(call.test_type).exc

\* C8 as amended: the three constants are returned as stated, and for any
\* other label collect_result_2 fails with a KeyError naming the label,
\* which is not the ValueError validate_test_type raises for it.
C8_KeyErrorOnUnknown ==
    (call.fn = "collect_result_2" /\ ret # Pending)
    => /\ call.test_type = Easy => ret = Returned(FloatV(238))
       /\ call.test_type = Medium => ret = Returned(FloatV(499))
       /\ call.test_type = Hard => ret = Returned(FloatV(1051))
       /\ call.test_type \notin KnownLabels =>
            /\ ret.status = "raised"
            /\ ret.exc = "KeyError"
            /\ ret.args = <<StrV(call.test_type)>>
            /\ validate_test_type(call.test_type).exc = "ValueError"

\* collect_result_2 has been called with a label outside the table
C8_Witness ==
    /\ call.fn = "collect_result_2"
    /\ call.test_type \notin KnownLabels
    /\ ret.status = "raised"

(***************************************************************************)
(* One Log instance as the only writer of a document: it is constructed    *)
(* against the document as found, then write_log is called on it.          *)
(***************************************************************************)
Text_1 == <<"1">>
Text_2_5 == <<"2", ".", "5">>
Key_5_1 == <<"5", ".", "1">>
DocInputs ==
    {Absent, Truncated, Dumped(NoLog),
     Dumped(Key_5_1 :> <<IntV(2), FloatV(31), StrV(Text_1)>>),
     Dumped((Str(6) :> <<IntV(2), FloatV(15), StrV(Text_2_5)>>)
            @@ (Str(10) :> <<IntV(9), FloatV(10), StrV(<<"0">>)>>))}
OutputInputs == {IntV(3), IntV(6), IntV(10), IntV(-4)}
PayloadInputs == {<<IntV(2), FloatV(15), StrV(Text_2_5)>>,
                  <<IntV(1), FloatV(10), StrV(Text_1)>>,
                  <<BoolV(TRUE), FloatV(238), StrV(<<"n", "_", "3">>)>>}

\* a Log instance: its mapping, where its caller stands in write_log, and
\* what it found at construction
Instance(d) == [log |-> Loaded(d), at |-> "ready",
                existed |-> d.state # "absent", loaded |-> Loaded(d)]

LogSpecInit ==
    /\ doc \in DocInputs
    /\ inst = << >>
    /\ call = NoCall
    /\ ret = Pending
    /\ stdout = << >>
    /\ pc = "idle"
    /\ frame = NoFrame
    /\ trace = << >>
    /\ origin = << >>
    /\ ncalls = 0

\* logger = Log(log_path)
NewLog ==
    /\ inst = << >> /\ ret = Pending
    /\ ret' = LogInit(doc)
    /\ inst' = IF LogInit(doc).status = "returned" THEN <<Instance(doc)>> ELSE inst
    /\ UNCHANGED <<call, stdout, doc, pc, frame, trace, origin, ncalls>>

\* logger.write_log(output, results)
WriteLog ==
    /\ Len(inst) = 1 /\ Len(trace) < MaxWrites
    /\ \E output \in OutputInputs, results \in PayloadInputs :
          LET w == write_log(inst[1].log, doc, output, results)
          IN  /\ inst' = [inst EXCEPT ![1].log = w.log]
              /\ doc' = w.doc
              /\ ret' = Returned(NoneV)
              /\ trace' = Append(trace, Called("write_log", <<output>> \o results))
    /\ UNCHANGED <<call, stdout, pc, frame, origin, ncalls>>

LogSpecNext ==
    \/ NewLog
    \/ WriteLog

LogSpec == LogSpecInit /\ [][LogSpecNext]_vars

(***************************************************************************)
(* Properties of one Log instance, checked under LogSpec                   *)
(***************************************************************************)
\* C2: a write_log call whose str(output) is already a key raises nothing
\* and changes neither the mapping nor the document, and no call removes a
\* key or changes the payload a key has.
C2_FirstWriteWins ==
    [][Len(inst) = 1 /\ Len(trace') = Len(trace) + 1
       => /\ ret'.status = "returned"
          /\ \A key \in DOMAIN inst[1].log :
                /\ key \in DOMAIN inst'[1].log
                /\ inst'[1].log[key] = inst[1].log[key]
          /\ Key(trace'[Len(trace')].args[1]) \in DOMAIN inst[1].log
                => inst' = inst /\ doc' = doc]_vars

\* a second call with the score of the first and another payload was made
C2_Witness ==
    /\ Len(trace) = 2
    /\ trace[1].args[1] = trace[2].args[1]
    /\ trace[1].args # trace[2].args
    /\ ~inst[1].existed
    /\ inst[1].log[Key(trace[1].args[1])] = Tail(trace[1].args)

\* some write_log call made so far had a score that was no key at construction
SomeInsert ==
    \E i \in 1..Len(trace) : Key(trace[i].args[1]) \notin DOMAIN inst[1].loaded

\* C3: once a write_log call of the only writer has inserted a key, the
\* document holds exactly the instance's mapping: what was loaded at
\* construction and every entry inserted since.
C3_DocumentIsMapping ==
    (Len(inst) = 1 /\ SomeInsert)
    => /\ doc.state = "json"
       /\ JsonLoad(doc.content) = inst[1].log
       /\ \A key \in DOMAIN inst[1].loaded :
             /\ key \in DOMAIN doc.content
             /\ JsonLoad(doc.content)[key] = inst[1].loaded[key]
       /\ \A i \in 1..Len(trace) : Key(trace[i].args[1]) \in DOMAIN doc.content

\* the first insert created a document that was absent at construction
C3_Witness ==
    /\ Len(inst) = 1 /\ ~inst[1].existed
    /\ Len(trace) = 1
    /\ doc.state = "json"
    /\ DOMAIN doc.content = {Key(trace[1].args[1])}

(***************************************************************************)
(* process_results, statement by statement. Each call of it starts from    *)
(* the document the calls before it left; frame.entry_doc keeps the        *)
(* document as the call found it and origin the inputs of the call that    *)
(* first wrote each score.                                                 *)
(***************************************************************************)
number_3 == <<"n", "u", "m", "b", "e", "r", "_", "3">>
\* result_3 = "number_3"
RESULT_3 == StrV(number_3)

\* Payload with the combined score in place of result_3
PayloadWithOutput(f) == <<f.result_1, f.result_2, f.output>>

\* the list [result_1, result_2, result_3] handed to write_log
Payload(f) == <<f.result_1, f.result_2, f.result_3>>

NoOrigin == [key \in {} |-> NoFrame]

Junk == <<"J", "u", "n", "k">>
ProcRanges == {<< >>, <<IntV(1)>>, <<IntV(1), IntV(27)>>, <<BoolV(TRUE)>>,
               <<IntV(1), FloatV(12)>>, <<StrV(<<"s", "t", "r">>), IntV(27)>>}
ProcLabels == {Easy, Medium, Hard, Junk, <<"E", "A", "S", "Y">>}

ProcInit ==
    /\ doc = Absent
    /\ inst = << >>
    /\ call = NoCall
    /\ ret = Pending
    /\ stdout = << >>
    /\ pc = "idle"
    /\ frame = NoFrame
    /\ trace = << >>
    /\ origin = NoOrigin
    /\ ncalls = 0

\* the caller calls process_results(input_result_range, input_test_type)
Enter ==
    /\ pc \in {"idle", "done", "failed"} /\ ncalls < MaxCalls
    /\ \E r \in ProcRanges, t \in ProcLabels :
          /\ frame' = [NoFrame EXCEPT !.result_range = r, !.test_type = t,
                                      !.entry_doc = doc]
          /\ call' = [NoCall EXCEPT !.fn = "process_results",
                                    !.result_range = r, !.test_type = t]
    /\ pc' = "validate_result_range"
    /\ ret' = Pending
    /\ trace' = << >>
    /\ inst' = << >>
    /\ ncalls' = ncalls + 1
    /\ UNCHANGED <<stdout, doc, origin>>

\* an exception leaves process_results, which catches nothing
Fails(r) == pc' = "failed" /\ ret' = r /\ frame' = frame

StepValidateRange ==
    /\ pc = "validate_result_range"
    /\ trace' = Append(trace, Called("validate_result_range", frame.result_range))
    /\ LET r == validate_result_range(frame.result_range)
       IN  IF r.status = "raised" THEN Fails(r)
           ELSE pc' = "validate_test_type" /\ UNCHANGED <<ret, frame>>
    /\ UNCHANGED <<call, stdout, doc, inst, origin, ncalls>>

StepValidateType ==
    /\ pc = "validate_test_type"
    /\ trace' = Append(trace, Called("validate_test_type", <<StrV(frame.test_type)>>))
    /\ LET r == validate_test_type(frame.test_type)
       IN  IF r.status = "raised" THEN Fails(r)
           ELSE pc' = "collect_result_1" /\ UNCHANGED <<ret, frame>>
    /\ UNCHANGED <<call, stdout, doc, inst, origin, ncalls>>

StepCollect1 ==
    /\ pc = "collect_result_1"
    /\ trace' = Append(trace, Called("collect_result_1", frame.result_range))
    /\ \E r \in collect_result_1(frame.result_range) :
          IF r.status = "raised" THEN Fails(r)
          ELSE /\ pc' = "collect_result_2"
               /\ frame' = [frame EXCEPT !.result_1 = r.val]
               /\ UNCHANGED ret
    /\ UNCHANGED <<call, stdout, doc, inst, origin, ncalls>>

StepCollect2 ==
    /\ pc = "collect_result_2"
    /\ trace' = Append(trace, Called("collect_result_2", <<StrV(frame.test_type)>>))
    /\ LET r == collect_result_2(frame.test_type)
       IN  IF r.status = "raised" THEN Fails(r)
           ELSE /\ pc' = "result_3"
                /\ frame' = [frame EXCEPT !.result_2 = r.val]
                /\ UNCHANGED ret
    /\ UNCHANGED <<call, stdout, doc, inst, origin, ncalls>>

StepResult3 ==
    /\ pc = "result_3"
    /\ trace' = Append(trace, Called("result_3 =", <<RESULT_3>>))
    /\ frame' = [frame EXCEPT !.result_3 = RESULT_3]
    /\ pc' = "combine_results"
    /\ UNCHANGED <<call, ret, stdout, doc, inst, origin, ncalls>>

StepCombine ==
    /\ pc = "combine_results"
    /\ trace' = Append(trace, Called("combine_results",
                               <<frame.result_1, frame.result_2, frame.result_3>>))
    /\ stdout' = stdout \o CombinePrints(frame.result_1, frame.result_2, frame.result_3)
    /\ LET r == combine_results(frame.result_1, frame.result_2, frame.result_3)
       IN  IF r.status = "raised" THEN Fails(r)
           ELSE /\ pc' = "Log"
                /\ frame' = [frame EXCEPT !.output = r.val]
                /\ UNCHANGED ret
    /\ UNCHANGED <<call, doc, inst, origin, ncalls>>

\* log = Log()
StepLog ==
    /\ pc = "Log"
    /\ trace' = Append(trace, Called("Log", << >>))
    /\ LET r == LogInit(doc)
       IN  IF r.status = "raised" THEN Fails(r) /\ UNCHANGED inst
           ELSE /\ pc' = "write_log"
                /\ inst' = <<Instance(doc)>>
                /\ UNCHANGED <<ret, frame>>
    /\ UNCHANGED <<call, stdout, doc, origin, ncalls>>

\* log.write_log(output, [result_1, result_2, result_3]), then the end of
\* the function body
StepWriteLog ==
    /\ pc = "write_log"
    /\ trace' = Append(trace, Called("write_log", <<frame.output>> \o Payload(frame)))
    /\ LET w == write_log(inst[1].log, doc, frame.output, Payload(frame))
       IN  /\ inst' = [inst EXCEPT ![1].log = w.log]
           /\ doc' = w.doc
    /\ origin' = IF Key(frame.output) \in DOMAIN origin THEN origin
                 ELSE [key \in DOMAIN origin \cup {Key(frame.output)} |->
                          IF key = Key(frame.output) THEN frame ELSE origin[key]]
    /\ pc' = "done"
    /\ ret' = Returned(NoneV)
    /\ UNCHANGED <<call, stdout, frame, ncalls>>

ProcNext ==
    \/ Enter
    \/ StepValidateRange
    \/ StepValidateType
    \/ StepCollect1
    \/ StepCollect2
    \/ StepResult3
    \/ StepCombine
    \/ StepLog
    \/ StepWriteLog

ProcSpec == ProcInit /\ [][ProcNext]_vars

(***************************************************************************)
(* Properties of process_results, checked under ProcSpec                   *)
(***************************************************************************)
Steps == [i \in 1..Len(trace) |-> trace[i].fn]

\* C4: a call of process_results that completes has validated the range,
\* validated the test type, collected result_1 and result_2, set result_3
\* to "number_3", combined, and then called write_log exactly once with
\* the combined score and [result_1, result_2, "number_3"].
C4_StepOrder ==
    pc = "done"
    => /\ Steps = <<"validate_result_range", "validate_test_type",
                    "collect_result_1", "collect_result_2", "result_3 =",
                    "combine_results", "Log", "write_log">>
       /\ trace[5].args = <<StrV(number_3)>>
       /\ trace[6].args = <<frame.result_1, frame.result_2, StrV(number_3)>>
       /\ \E i \in 1..Len(frame.result_range) : frame.result_range[i] = frame.result_1
       /\ frame.result_2 = TEST_RESULTS[frame.test_type]
       /\ frame.output = combine_results(frame.result_1, frame.result_2,
                                         StrV(number_3)).val
       /\ trace[8].args = <<frame.output, frame.result_1, frame.result_2,
                            StrV(number_3)>>

\* a call has completed
C4_Witness ==
    /\ pc = "done"
    /\ frame.result_range = <<IntV(1), IntV(27)>> /\ frame.test_type = Medium
    /\ frame.result_1 = IntV(27)
    /\ Len(trace) = 8

\* the range holds a float or a string, or the label is not in the table
InvalidInput ==
    \/ \E i \in 1..Len(frame.result_range) : frame.result_range[i].k \in {"float", "str"}
    \/ frame.test_type \notin KnownLabels

\* C5: a call of process_results with a non-integer in the range or an
\* unknown label fails with a ValueError before any side effect: no Log is
\* constructed, write_log is not called, the document stays as it was.
C5_FailsBeforeSideEffect ==
    (pc # "idle" /\ InvalidInput)
    => /\ pc \in {"validate_result_range", "validate_test_type", "failed"}
       /\ pc = "failed" => ret.status = "raised" /\ ret.exc = "ValueError"
       /\ \A i \in 1..Len(trace) : trace[i].fn \notin {"Log", "write_log"}
       /\ inst = << >>
       /\ doc = frame.entry_doc

\* a call with a bad label has failed while the document was present
C5_Witness ==
    /\ pc = "failed" /\ InvalidInput
    /\ frame.test_type = Junk
    /\ frame.result_range = <<IntV(1), IntV(27)>>
    /\ frame.entry_doc.state = "json"

\* the one-row table with the columns result_1, result_2, result_3 and sum
SummaryTable(f) ==
    [k |-> "DataFrame", n |-> 1, s |-> NoText,
     columns |-> <<"result_1", "result_2", "result_3", "sum">>,
     row |-> <<f.result_1, f.result_2, StrV(number_3), f.output>>]

\* C9: a call of process_results that completes returns the one-row table
\* of result_1, result_2, "number_3" and the combined score.
C9_ReturnsSummary ==
    pc = "done" => ret = Returned(SummaryTable(frame))

\* the offset a test type adds to result_1: floor or ceil of its constant, plus 3
Offset(r2) == CASE r2 = FloatV(238) -> 26
                [] r2 = FloatV(499) -> 52
                [] r2 = FloatV(1051) -> 109

\* C10: every entry of the document is [r1, r2, "number_3"] with r1 an
\* element of the range of the call that inserted it and r2 one of 23.8,
\* 49.9, 105.1, under the key str(r1 + 26), str(r1 + 52) or str(r1 + 109);
\* it stays as the first call with that score wrote it.
C10_DocumentEntries ==
    /\ doc.state \in {"absent", "json"}
    /\ DOMAIN doc.content = DOMAIN origin
    /\ \A key \in DOMAIN doc.content :
          LET p == JsonLoad(doc.content)[key]
              o == origin[key]
          IN  /\ Len(p) = 3
              /\ p[3] = StrV(number_3)
              /\ p[2] \in {FloatV(238), FloatV(499), FloatV(1051)}
              /\ \E i \in 1..Len(o.result_range) : o.result_range[i] = p[1]
              /\ key = Str(p[1].n + Offset(p[2]))
              /\ p[1] = o.result_1 /\ p[2] = o.result_2

\* a call with other inputs produced a score the document already held
C10_Witness ==
    /\ pc = "done"
    /\ Key(frame.output) \in DOMAIN doc.content
    /\ origin[Key(frame.output)].result_2 # frame.result_2
    /\ JsonLoad(doc.content)[Key(frame.output)] # Payload(frame)

(***************************************************************************)
(* Two processes, each with its own Log instance on the same document.     *)
(* Between the open and the dump of one write_log the other process may    *)
(* run. trace keeps the order in which the dumps completed.                *)
(***************************************************************************)
Writers == {1, 2}
Unbuilt == [log |-> NoLog, at |-> "new", existed |-> FALSE, loaded |-> NoLog]
ConcDocInputs ==
    {Absent, Dumped(NoLog),
     Dumped(Key_5_1 :> <<IntV(2), FloatV(31), StrV(Text_1)>>)}
ConcOutputs == {IntV(3), IntV(6), IntV(10)}
\* the payload writer w records
ConcPayload(w) == <<IntV(w), FloatV(15), StrV(Text_2_5)>>

ConcInit ==
    /\ doc \in ConcDocInputs
    /\ inst = [w \in Writers |-> Unbuilt]
    /\ call = NoCall
    /\ ret = Pending
    /\ stdout = << >>
    /\ pc = "idle"
    /\ frame = NoFrame
    /\ trace = << >>
    /\ origin = << >>
    /\ ncalls = 0

\* writer w: logger = Log(log_path); a failed load ends the process
ConcNewLog(w) ==
    /\ inst[w].at = "new"
    /\ inst' = [inst EXCEPT ![w] =
                  IF LogInit(doc).status = "returned" THEN Instance(doc)
                  ELSE [Unbuilt EXCEPT !.at = "crashed"]]
    /\ UNCHANGED <<call, ret, stdout, doc, pc, frame, trace, origin, ncalls>>

\* writer w: write_log up to the open of the file, or the whole of it when
\* the key is already in the mapping
ConcWriteLog(w) ==
    /\ inst[w].at = "ready"
    /\ \E output \in ConcOutputs :
          IF Key(output) \notin DOMAIN inst[w].log
          THEN /\ inst' = [inst EXCEPT
                             ![w].log = Insert(inst[w].log, output, ConcPayload(w)),
                             ![w].at = "opened"]
               /\ doc' = open_w(doc)
          ELSE UNCHANGED <<inst, doc>>
    /\ UNCHANGED <<call, ret, stdout, pc, frame, trace, origin, ncalls>>

\* writer w: the dump and the close that end write_log
ConcDump(w) ==
    /\ inst[w].at = "opened"
    /\ doc' \in json_dump(inst[w].log, doc)
    /\ inst' = [inst EXCEPT ![w].at = "ready"]
    /\ trace' = Append(trace, Called("json.dump", <<IntV(w)>>))
    /\ UNCHANGED <<call, ret, stdout, pc, frame, origin, ncalls>>

ConcNext ==
    \E w \in Writers :
        \/ ConcNewLog(w)
        \/ ConcWriteLog(w)
        \/ ConcDump(w)

ConcSpec == ConcInit /\ [][ConcNext]_vars

(***************************************************************************)
(* Properties of two writers, checked under ConcSpec                       *)
(***************************************************************************)
\* the keys writer w has inserted
Inserted(w) == DOMAIN inst[w].log \ DOMAIN inst[w].loaded
LastWriter == trace[Len(trace)].args[1].n

\* both writers loaded the same document, each then inserted one key of
\* its own, and both write_log calls are over
BothWrote ==
    /\ \A w \in Writers : inst[w].at = "ready" /\ Cardinality(Inserted(w)) = 1
    /\ inst[1].loaded = inst[2].loaded
    /\ Inserted(1) # Inserted(2)
    /\ doc.state = "json"

\* C6: when two instances have loaded the same document and each has
\* inserted a different new key, the document after both write_log calls
\* is the mapping of the writer that dumped last, that is what both loaded
\* plus that writer's key, and the other writer's key is missing from it.
C6_LastWriterWins ==
    BothWrote
    => LET w == LastWriter
       IN  /\ JsonLoad(doc.content) = inst[w].log
           /\ DOMAIN doc.content = DOMAIN inst[w].loaded \cup Inserted(w)
           /\ \A key \in DOMAIN inst[w].loaded :
                 JsonLoad(doc.content)[key] = inst[w].loaded[key]
           /\ \A o \in Writers \ {w} : Inserted(o) \cap DOMAIN doc.content = {}

\* the update of writer 1 is lost: it inserted the key "3", writer 2 dumped
\* last, and the document has the loaded entry and the key "6" only
C6_Witness ==
    /\ BothWrote
    /\ Inserted(1) = {Str(3)} /\ Inserted(2) = {Str(6)}
    /\ LastWriter = 2
    /\ DOMAIN doc.content = {Key_5_1, Str(6)}

====
